---- MODULE Spec2Model ----
(***************************************************************************)
(* add_to_xcode.py: a one-shot patch of an Xcode project manifest          *)
(* (project.pbxproj).  The manifest text is modelled as a sequence of      *)
(* lexical pieces (strings): newline, tab, identifiers, section markers,   *)
(* record headers, listing openers/closers and labels.  The regular        *)
(* expressions, slicing, rstrip and str.replace of the script are          *)
(* computed on that sequence as Python computes them on characters.        *)
(***************************************************************************)
EXTENDS Integers, Sequences, FiniteSets

VARIABLES file, content, orig, uuids, pc, failedAt, opens, runs

vars == <<file, content, orig, uuids, pc, failedAt, opens, runs>>

-----------------------------------------------------------------------------
(* Bounds of the model *)

\* size of the pool the random identifiers are drawn from
NumIds == 2
\* number of consecutive runs of the script on the same file
MaxRuns == 2

-----------------------------------------------------------------------------
(* Lexical pieces *)

\* whitespace: a newline with the indentation that follows it, cut at three
\* tabs; deeper indentation is NL3 followed by TAB pieces
NL == "\n"
NL1 == "\n\t"
NL2 == "\n\t\t"
NL3 == "\n\t\t\t"
TAB == "\t"

\* 24-character uppercase hexadecimal identifiers
IdTok == <<"0A1B2C3D4E5F4A6B8C7D0001", "0A1B2C3D4E5F4A6B8C7D0002",
           "0A1B2C3D4E5F4A6B8C7D0003", "0A1B2C3D4E5F4A6B8C7D0004",
           "0A1B2C3D4E5F4A6B8C7D0005", "0A1B2C3D4E5F4A6B8C7D0006">>

AllIds == {IdTok[i] : i \in 1..Len(IdTok)}

\* the values one call of generate_xcode_uuid can return
UuidPool == {IdTok[i] : i \in 1..NumIds}

BeginBuildFile == "/* Begin PBXBuildFile section */"
EndBuildFile == "/* End PBXBuildFile section */"
BeginFileRef == "/* Begin PBXFileReference section */"
EndFileRef == "/* End PBXFileReference section */"
BeginGroup == "/* Begin PBXGroup section */"
EndGroup == "/* End PBXGroup section */"
BeginSources == "/* Begin PBXSourcesBuildPhase section */"
EndSources == "/* End PBXSourcesBuildPhase section */"

FeaturesHdr == " /* Features */ = {"
OtherHdr == " /* Models */ = {"
SourcesHdr == " /* Sources */ = {"
ChildrenOpen == "children = ("
FilesOpen == "files = ("
ListClose == ");"
RecordClose == "};"

\* member labels of the listings of an input manifest
HomeMember == " /* Home */,"
AppSourcesMember == " /* App.swift in Sources */,"

\* pieces of the text the script inserts (the double quotes of the source
\* text around <group> are left out of the pieces)
BuildViewHead == " /* AudioProcessorTestView.swift in Sources */ = {isa = PBXBuildFile; fileRef = "
BuildViewTail == " /* AudioProcessorTestView.swift */; };"
BuildViewModelHead == " /* AudioProcessorTestViewModel.swift in Sources */ = {isa = PBXBuildFile; fileRef = "
BuildViewModelTail == " /* AudioProcessorTestViewModel.swift */; };"
FileRefViewBody == " /* AudioProcessorTestView.swift */ = {isa = PBXFileReference; lastKnownFileType = sourcecode.swift; path = AudioProcessorTestView.swift; sourceTree = <group>; };"
FileRefViewModelBody == " /* AudioProcessorTestViewModel.swift */ = {isa = PBXFileReference; lastKnownFileType = sourcecode.swift; path = AudioProcessorTestViewModel.swift; sourceTree = <group>; };"
GroupMember == " /* AudioProcessorTest */,"
GroupHdr == " /* AudioProcessorTest */ = {"
ViewMember == " /* AudioProcessorTestView.swift */,"
ViewModelMember == " /* AudioProcessorTestViewModel.swift */,"
ViewSourcesMember == " /* AudioProcessorTestView.swift in Sources */,"
ViewModelSourcesMember == " /* AudioProcessorTestViewModel.swift in Sources */,"

\* the pieces that hold a '(' ')' '{' or '}' character
BracketPieces ==
    {"{", "objects = {", FeaturesHdr, OtherHdr, SourcesHdr, GroupHdr, BuildViewHead,
     BuildViewModelHead, "}", RecordClose, BuildViewTail, BuildViewModelTail,
     FileRefViewBody, FileRefViewModelBody, ChildrenOpen, FilesOpen, ListClose}

BracketsOf ==
    [t \in BracketPieces |->
        CASE t \in {"{", "objects = {", FeaturesHdr, OtherHdr, SourcesHdr, GroupHdr,
                    BuildViewHead, BuildViewModelHead} -> <<"{">>
          [] t \in {"}", RecordClose, BuildViewTail, BuildViewModelTail} -> <<"}">>
          [] t \in {FileRefViewBody, FileRefViewModelBody} -> <<"{", "}">>
          [] t \in {ChildrenOpen, FilesOpen} -> <<"(">>
          [] t = ListClose -> <<")">>]

\* the '(' ')' '{' '}' characters of a piece, in order
Brackets(t) == IF t \in BracketPieces THEN BracketsOf[t] ELSE <<>>

PiecesWith(ch) ==
    {t \in BracketPieces : \E i \in 1..Len(BracketsOf[t]) : BracketsOf[t][i] = ch}

WithCloseParen == PiecesWith(")")
WithCloseBrace == PiecesWith("}")

IsSpace(t) == t \in {NL, NL1, NL2, NL3, TAB}

-----------------------------------------------------------------------------
(* Python primitives on the text *)

Min(S) == CHOOSE x \in S : \A y \in S : x <= y
Max(S) == CHOOSE x \in S : \A y \in S : x >= y

\* re.search(marker, c): position of the leftmost occurrence, 0 for None
SearchMarker(c, marker) ==
    LET hits == {i \in 1..Len(c) : c[i] = marker}
    IN  IF hits = {} THEN 0 ELSE Min(hits)

\* c[:pos] + text + c[pos:]
InsertAt(c, pos, text) ==
    SubSeq(c, 1, pos) \o text \o SubSeq(c, pos + 1, Len(c))

\* s.rstrip(): trailing whitespace removed
RECURSIVE RStrip(_)
RStrip(s) ==
    IF s # <<>> /\ IsSpace(s[Len(s)]) THEN RStrip(SubSeq(s, 1, Len(s) - 1)) ELSE s

\* c.replace(old, new) from position i on: every non-overlapping occurrence
\* of old, scanning from the left
RECURSIVE ReplaceFrom(_, _, _, _, _)
ReplaceFrom(c, occ, old, new, i) ==
    LET rest == {o \in occ : o >= i}
    IN  IF rest = {} THEN SubSeq(c, i, Len(c))
        ELSE LET j == Min(rest)
             IN  SubSeq(c, i, j - 1) \o new \o ReplaceFrom(c, occ, old, new, j + Len(old))

Occurrences(c, old) ==
    {i \in 1..(Len(c) - Len(old) + 1) : \A k \in 1..Len(old) : c[i + k - 1] = old[k]}

StrReplace(c, old, new) == ReplaceFrom(c, Occurrences(c, old), old, new, 1)

\* end of the match of  \([^)]+\);  whose "(" ends the piece at position k:
\* the position of the ");" piece, 0 when there is no match (no piece between
\* them, or the first ")" is not followed by ";")
ListingEnd(c, k) ==
    LET closers == {e \in (k + 1)..Len(c) : c[e] \in WithCloseParen}
    IN  IF closers = {} THEN 0
        ELSE LET e == Min(closers)
             IN  IF e >= k + 2 /\ c[e] = ListClose THEN e ELSE 0

\* positions k of the opener (children = ( / files = () with which
\*   <id><hdr>[^}]+<opener>[^)]+\);   matches starting at position h
Openers(c, h, ids, hdr, opener) ==
    IF h + 1 <= Len(c) /\ c[h + 1] = hdr /\ c[h] \in ids
    THEN {k \in (h + 3)..Len(c) :
             /\ c[k] = opener
             /\ \A j \in (h + 2)..(k - 1) : c[j] \notin WithCloseBrace
             /\ ListingEnd(c, k) # 0}
    ELSE {}

\* re.search of  (<id>) <hdr>[^}]+<opener>([^)]+)(\);)  : leftmost start, the
\* greedy [^}]+ takes the last opener that still lets the rest match.
\* group1 is the identifier, first..last delimit group(2).
SearchListing(c, ids, hdr, opener) ==
    LET starts == {h \in 1..Len(c) : Openers(c, h, ids, hdr, opener) # {}}
    IN  IF starts = {} THEN [found |-> FALSE, group1 |-> "", first |-> 0, last |-> 0]
        ELSE LET h == Min(starts)
                 k == Max(Openers(c, h, ids, hdr, opener))
             IN  [found |-> TRUE, group1 |-> c[h],
                  first |-> k + 1, last |-> ListingEnd(c, k) - 1]

-----------------------------------------------------------------------------
(* The text blocks of add_files_to_pbxproj; u holds the five identifiers *)

build_entries(u) ==
    <<NL2, u.view_build_file_uuid, BuildViewHead, u.view_file_ref_uuid, BuildViewTail,
      NL2, u.viewmodel_build_file_uuid, BuildViewModelHead, u.viewmodel_file_ref_uuid, BuildViewModelTail>>

file_entries(u) ==
    <<NL2, u.view_file_ref_uuid, FileRefViewBody,
      NL2, u.viewmodel_file_ref_uuid, FileRefViewModelBody>>

\* the group record with its children listing left open
group_entry_unclosed(u) ==
    <<NL2, u.group_uuid, GroupHdr,
      NL3, "isa = PBXGroup;",
      NL3, ChildrenOpen,
      NL3, TAB, u.view_file_ref_uuid, ViewMember,
      NL3, TAB, u.viewmodel_file_ref_uuid, ViewModelMember,
      NL3, "path = AudioProcessorTest;",
      NL3, "sourceTree = <group>;",
      NL2, RecordClose>>

group_entry(u) ==
    <<NL2, u.group_uuid, GroupHdr,
      NL3, "isa = PBXGroup;",
      NL3, ChildrenOpen,
      NL3, TAB, u.view_file_ref_uuid, ViewMember,
      NL3, TAB, u.viewmodel_file_ref_uuid, ViewModelMember,
      NL3, ListClose,
      NL3, "path = AudioProcessorTest;",
      NL3, "sourceTree = <group>;",
      NL2, RecordClose>>

new_children(existing_children, u) ==
    RStrip(existing_children) \o <<NL3, TAB, u.group_uuid, GroupMember>>

new_files(existing_files, u) ==
    RStrip(existing_files)
        \o <<NL3, TAB, u.view_build_file_uuid, ViewSourcesMember,
             NL3, TAB, u.viewmodel_build_file_uuid, ViewModelSourcesMember>>

-----------------------------------------------------------------------------
(* The steps of add_files_to_pbxproj, each a function of the text *)

\* the insertion without the check of the match
BuildFileStepUnguarded(c, u) ==
    InsertAt(c, SearchMarker(c, BeginBuildFile), build_entries(u))

\* 1. Add PBXBuildFile entries
BuildFileStep(c, u) ==
    LET insert_pos == SearchMarker(c, BeginBuildFile)
    IN  IF insert_pos # 0 THEN InsertAt(c, insert_pos, build_entries(u)) ELSE c

\* 2. Add PBXFileReference entries
FileRefStep(c, u) ==
    LET insert_pos == SearchMarker(c, BeginFileRef)
    IN  IF insert_pos # 0 THEN InsertAt(c, insert_pos, file_entries(u)) ELSE c

\* 3. append the new group to the children of the Features group
FeaturesStep(c, u) ==
    LET features_group_match == SearchListing(c, AllIds, FeaturesHdr, ChildrenOpen)
    IN  IF features_group_match.found
        THEN LET children_match ==
                     SearchListing(c, {features_group_match.group1}, FeaturesHdr, ChildrenOpen)
             IN  IF children_match.found
                 THEN LET existing_children ==
                              SubSeq(c, children_match.first, children_match.last)
                      IN  StrReplace(c, existing_children, new_children(existing_children, u))
                 ELSE c
        ELSE c

\* the group definition added only when the Features group was found
GroupStepUnderFeatures(c, u) ==
    LET insert_pos == SearchMarker(c, BeginGroup)
    IN  IF insert_pos # 0 /\ SearchListing(c, AllIds, FeaturesHdr, ChildrenOpen).found
        THEN InsertAt(c, insert_pos, group_entry(u)) ELSE c

\* 3. (continued) add the AudioProcessorTest group definition
GroupStep(c, u) ==
    LET insert_pos == SearchMarker(c, BeginGroup)
    IN  IF insert_pos # 0 THEN InsertAt(c, insert_pos, group_entry(u)) ELSE c

\* 4. Add to PBXSourcesBuildPhase
SourcesStep(c, u) ==
    LET sources_phase_match == SearchListing(c, AllIds, SourcesHdr, FilesOpen)
    IN  IF sources_phase_match.found
        THEN LET files_match ==
                     SearchListing(c, {sources_phase_match.group1}, SourcesHdr, FilesOpen)
             IN  IF files_match.found
                 THEN LET existing_files == SubSeq(c, files_match.first, files_match.last)
                      IN  StrReplace(c, existing_files, new_files(existing_files, u))
                 ELSE c
        ELSE c

-----------------------------------------------------------------------------
(* Input manifests: project.pbxproj files as Xcode lays them out *)

\* text between "(" and ");" of a listing: no member (Xcode writes the closer
\* on its own line) or one member
Listing(kind, id, label) ==
    IF kind = "blank" THEN <<NL3>>
    ELSE <<NL3, TAB, id, label, NL3>>

GroupRecord(id, hdr, kind) ==
    <<NL2, id, hdr,
      NL3, "isa = PBXGroup;",
      NL3, ChildrenOpen>>
    \o Listing(kind, IdTok[1], HomeMember)
    \o <<ListClose,
         NL3, "sourceTree = <group>;",
         NL2, RecordClose>>

SourcesRecord(id, kind) ==
    <<NL2, id, SourcesHdr,
      NL3, "isa = PBXSourcesBuildPhase;",
      NL3, FilesOpen>>
    \o Listing(kind, IdTok[2], AppSourcesMember)
    \o <<ListClose,
         NL3, "runOnlyForDeploymentPostprocessing = 0;",
         NL2, RecordClose>>

Section(present, begin, end, records) ==
    IF present THEN <<NL, begin>> \o records \o <<NL, end>> ELSE records

ListingKinds == {"blank", "one"}

ManifestShapes ==
    [bbf : BOOLEAN, bfr : BOOLEAN, bgr : BOOLEAN,
     features : ListingKinds \cup {"none"},
     other : ListingKinds \cup {"none"},
     sources : ListingKinds \cup {"none"}]

Manifest(m) ==
    <<"{", NL1, "objects = {">>
    \o Section(m.bbf, BeginBuildFile, EndBuildFile, <<>>)
    \o Section(m.bfr, BeginFileRef, EndFileRef, <<>>)
    \o Section(m.bgr, BeginGroup, EndGroup,
               (IF m.features = "none" THEN <<>>
                ELSE GroupRecord(IdTok[1], FeaturesHdr, m.features))
               \o (IF m.other = "none" THEN <<>>
                   ELSE GroupRecord(IdTok[2], OtherHdr, m.other)))
    \o Section(m.sources # "none", BeginSources, EndSources,
               IF m.sources = "none" THEN <<>> ELSE SourcesRecord(IdTok[1], m.sources))
    \o <<NL1, "};", NL, "}", NL>>

Manifests == {Manifest(m) : m \in ManifestShapes}

-----------------------------------------------------------------------------
(* The run of the script *)

UuidNames == {"view_file_ref_uuid", "viewmodel_file_ref_uuid", "view_build_file_uuid",
              "viewmodel_build_file_uuid", "group_uuid"}

NoUuids == [n \in UuidNames |-> ""]

Init ==
    /\ file \in Manifests
    /\ orig = file
    /\ content = <<>>
    /\ uuids = NoUuids
    /\ pc = "read"
    /\ failedAt = ""
    /\ opens = 0
    /\ runs = 0

\* with open(pbxproj_path, 'r') as f: content = f.read()
ReadFile ==
    /\ pc = "read"
    /\ content' = file
    /\ pc' = "generate"
    /\ UNCHANGED <<file, orig, uuids, failedAt, opens, runs>>

\* five calls of generate_xcode_uuid()
GenerateUuids ==
    /\ pc = "generate"
    /\ uuids' \in [UuidNames -> UuidPool]
    /\ pc' = "build_file"
    /\ UNCHANGED <<file, content, orig, failedAt, opens, runs>>

\* the step saving its result to the file at once
AddBuildFilesSaving ==
    /\ pc = "build_file"
    /\ content' = BuildFileStep(content, uuids)
    /\ file' = content'
    /\ pc' = "file_ref"
    /\ UNCHANGED <<orig, uuids, failedAt, opens, runs>>

\* 1. Add PBXBuildFile entries
AddBuildFiles ==
    /\ pc = "build_file"
    /\ content' = BuildFileStep(content, uuids)
    /\ pc' = "file_ref"
    /\ UNCHANGED <<file, orig, uuids, failedAt, opens, runs>>

\* 2. Add PBXFileReference entries
AddFileRefs ==
    /\ pc = "file_ref"
    /\ content' = FileRefStep(content, uuids)
    /\ pc' = "features"
    /\ UNCHANGED <<file, orig, uuids, failedAt, opens, runs>>

\* 3. add the new group to the Features children
LinkFeatures ==
    /\ pc = "features"
    /\ content' = FeaturesStep(content, uuids)
    /\ pc' = "group"
    /\ UNCHANGED <<file, orig, uuids, failedAt, opens, runs>>

\* 3. add the AudioProcessorTest group definition
AddGroup ==
    /\ pc = "group"
    /\ content' = GroupStep(content, uuids)
    /\ pc' = "sources"
    /\ UNCHANGED <<file, orig, uuids, failedAt, opens, runs>>

\* 4. Add to PBXSourcesBuildPhase
LinkSources ==
    /\ pc = "sources"
    /\ content' = SourcesStep(content, uuids)
    /\ pc' = "open_w"
    /\ UNCHANGED <<file, orig, uuids, failedAt, opens, runs>>

\* open(pbxproj_path, 'w'): the file is truncated
OpenForWrite ==
    /\ pc = "open_w"
    /\ file' = <<>>
    /\ opens' = opens + 1
    /\ pc' = "write"
    /\ UNCHANGED <<content, orig, uuids, failedAt, runs>>

\* f.write(content) and the close that ends the with block
WriteBack ==
    /\ pc = "write"
    /\ file' = content
    /\ runs' = runs + 1
    /\ pc' = "done"
    /\ UNCHANGED <<content, orig, uuids, failedAt, opens>>

Next ==
    \/ ReadFile
    \/ GenerateUuids
    \/ AddBuildFiles
    \/ AddFileRefs
    \/ LinkFeatures
    \/ AddGroup
    \/ LinkSources
    \/ OpenForWrite
    \/ WriteBack

Spec == Init /\ [][Next]_vars

\* the process ends with an unhandled error (an I/O failure, an interrupt):
\* whatever it had done to the file stays
Fail ==
    /\ pc \notin {"done", "failed"}
    /\ failedAt' = pc
    /\ pc' = "failed"
    /\ UNCHANGED <<file, content, orig, uuids, opens, runs>>

\* the script is run again on the file it wrote
RunAgain ==
    /\ pc = "done"
    /\ runs < MaxRuns
    /\ content' = <<>>
    /\ uuids' = NoUuids
    /\ opens' = 0
    /\ pc' = "read"
    /\ UNCHANGED <<file, orig, failedAt, runs>>

\* manifests for the runs that may fail: the section markers all present or
\* all absent, no second group
FailManifests ==
    {Manifest(m) : m \in {x \in ManifestShapes :
                            x.bbf = x.bfr /\ x.bfr = x.bgr /\ x.other = "none"}}

InitFail ==
    /\ file \in FailManifests
    /\ orig = file
    /\ content = <<>>
    /\ uuids = NoUuids
    /\ pc = "read"
    /\ failedAt = ""
    /\ opens = 0
    /\ runs = 0

NextFail ==
    \/ Next
    \/ Fail

SpecFail == InitFail /\ [][NextFail]_vars

\* manifests for repeated runs: every anchor present, no second group
TwiceManifests ==
    {Manifest(m) : m \in {x \in ManifestShapes :
                            /\ x.bbf /\ x.bfr /\ x.bgr /\ x.other = "none"
                            /\ x.features # "none" /\ x.sources # "none"}}

InitTwice ==
    /\ file \in TwiceManifests
    /\ orig = file
    /\ content = <<>>
    /\ uuids = NoUuids
    /\ pc = "read"
    /\ failedAt = ""
    /\ opens = 0
    /\ runs = 0

NextTwice ==
    \/ Next
    \/ RunAgain

SpecTwice == InitTwice /\ [][NextTwice]_vars

-----------------------------------------------------------------------------
(* Vocabulary of the properties *)

Count(c, pieces) == Cardinality({i \in 1..Len(c) : c[i] \in pieces})

BuildFileEntries(c) == Count(c, {BuildViewHead, BuildViewModelHead})
FileRefEntries(c) == Count(c, {FileRefViewBody, FileRefViewModelBody})
GroupRecords(c) == Count(c, {GroupHdr})

MemberLabels ==
    {HomeMember, AppSourcesMember, GroupMember, ViewMember, ViewModelMember,
     ViewSourcesMember, ViewModelSourcesMember}

\* the anchors of the five steps
BuildFileAnchor(c) == SearchMarker(c, BeginBuildFile) # 0
FileRefAnchor(c) == SearchMarker(c, BeginFileRef) # 0
GroupAnchor(c) == SearchMarker(c, BeginGroup) # 0
FeaturesAnchor(c) == SearchListing(c, AllIds, FeaturesHdr, ChildrenOpen).found
SourcesAnchor(c) == SearchListing(c, AllIds, SourcesHdr, FilesOpen).found

AllAnchors(c) ==
    /\ BuildFileAnchor(c) /\ FileRefAnchor(c) /\ GroupAnchor(c)
    /\ FeaturesAnchor(c) /\ SourcesAnchor(c)

NoAnchors(c) ==
    /\ ~BuildFileAnchor(c) /\ ~FileRefAnchor(c) /\ ~GroupAnchor(c)
    /\ ~FeaturesAnchor(c) /\ ~SourcesAnchor(c)

\* the text between "(" and ");" of the first record with header hdr
ListingOf(c, hdr, opener) ==
    LET m == SearchListing(c, AllIds, hdr, opener)
    IN  IF m.found THEN SubSeq(c, m.first, m.last) ELSE <<>>

Members(listing) == Count(listing, MemberLabels)

\* the (identifier, label) pairs of a listing
MemberSet(listing) ==
    {<<listing[j], listing[j + 1]>> : j \in {i \in 1..(Len(listing) - 1) :
                                                listing[i + 1] \in MemberLabels}}

\* identifier id is defined by a record whose text after the identifier is body
Defines(c, id, body) == \E i \in 1..(Len(c) - 1) : c[i] = id /\ c[i + 1] = body

\* '(' ')' '{' '}' of the whole text nest properly
RECURSIVE Nests(_, _)
Nests(chars, stack) ==
    IF chars = <<>> THEN stack = <<>>
    ELSE LET ch == Head(chars)
         IN  IF ch \in {"(", "{"} THEN Nests(Tail(chars), <<ch>> \o stack)
             ELSE /\ stack # <<>>
                  /\ Head(stack) = (IF ch = ")" THEN "(" ELSE "{")
                  /\ Nests(Tail(chars), Tail(stack))

\* the brackets of the pieces lo..hi of c, in order
RECURSIVE BracketsIn(_, _, _)
BracketsIn(c, lo, hi) ==
    IF lo > hi THEN <<>>
    ELSE IF lo = hi THEN Brackets(c[lo])
    ELSE LET mid == (lo + hi) \div 2
         IN  BracketsIn(c, lo, mid) \o BracketsIn(c, mid + 1, hi)

AllBrackets(c) == BracketsIn(c, 1, Len(c))

Balanced(c) == Nests(AllBrackets(c), <<>>)

-----------------------------------------------------------------------------
(* Properties *)

Generated == \A n \in UuidNames : uuids[n] # ""

\* C1: for a manifest with all anchors, one run adds exactly two build-file
\* entries, two file-reference entries, one group record, one member to the
\* Features children listing and two members to the Sources files listing.
OneRunAddsExactly ==
    (pc = "done" /\ runs = 1 /\ AllAnchors(orig)) =>
        /\ BuildFileEntries(file) = BuildFileEntries(orig) + 2
        /\ FileRefEntries(file) = FileRefEntries(orig) + 2
        /\ GroupRecords(file) = GroupRecords(orig) + 1
        /\ Members(ListingOf(file, FeaturesHdr, ChildrenOpen))
              = Members(ListingOf(orig, FeaturesHdr, ChildrenOpen)) + 1
        /\ Members(ListingOf(file, SourcesHdr, FilesOpen))
              = Members(ListingOf(orig, SourcesHdr, FilesOpen)) + 2

\* C2: with all anchors present the inserted entries are fully wired after one
\* run: each build-file entry refers to an inserted file reference, the new
\* group record's children are exactly the two new file references, the
\* Features listing holds the new group and the Sources listing both new
\* build files.
FullyWired ==
    (pc = "done" /\ runs = 1 /\ AllAnchors(orig)) =>
        /\ Defines(file, uuids.view_build_file_uuid, BuildViewHead)
        /\ Defines(file, uuids.viewmodel_build_file_uuid, BuildViewModelHead)
        /\ \A i \in 1..(Len(file) - 1) :
              /\ file[i] = BuildViewHead => Defines(file, file[i + 1], FileRefViewBody)
              /\ file[i] = BuildViewModelHead => Defines(file, file[i + 1], FileRefViewModelBody)
        /\ MemberSet(ListingOf(file, GroupHdr, ChildrenOpen))
              = {<<uuids.view_file_ref_uuid, ViewMember>>,
                 <<uuids.viewmodel_file_ref_uuid, ViewModelMember>>}
        /\ <<uuids.group_uuid, GroupMember>>
              \in MemberSet(ListingOf(file, FeaturesHdr, ChildrenOpen))
        /\ {<<uuids.view_build_file_uuid, ViewSourcesMember>>,
            <<uuids.viewmodel_build_file_uuid, ViewModelSourcesMember>>}
              \subseteq MemberSet(ListingOf(file, SourcesHdr, FilesOpen))

\* C3: the five identifiers generated in one run are mutually distinct and
\* distinct from every identifier already present in the manifest.
UuidsFresh ==
    Generated =>
        /\ \A a, b \in UuidNames : a # b => uuids[a] # uuids[b]
        /\ \A n \in UuidNames : \A i \in 1..Len(orig) : orig[i] # uuids[n]

\* C4: two runs in sequence on a manifest with all anchors leave four new
\* build-file entries, four new file-reference entries, two new group records,
\* two members appended to the Features children listing and four members
\* appended to the Sources files listing.
TwoRunsAddTwice ==
    (pc = "done" /\ runs = 2 /\ AllAnchors(orig)) =>
        /\ BuildFileEntries(file) = BuildFileEntries(orig) + 4
        /\ FileRefEntries(file) = FileRefEntries(orig) + 4
        /\ GroupRecords(file) = GroupRecords(orig) + 2
        /\ Members(ListingOf(file, FeaturesHdr, ChildrenOpen))
              = Members(ListingOf(orig, FeaturesHdr, ChildrenOpen)) + 2
        /\ Members(ListingOf(file, SourcesHdr, FilesOpen))
              = Members(ListingOf(orig, SourcesHdr, FilesOpen)) + 4

\* C5: without a Features group anchor the build-file and file-reference
\* entries are still inserted where their markers are, the group record is
\* inserted where the PBXGroup marker is, and no existing group's children
\* listing is modified.
FeaturesAbsentFrame ==
    (pc = "done" /\ runs = 1 /\ ~FeaturesAnchor(orig)) =>
        /\ BuildFileAnchor(orig) => BuildFileEntries(file) = BuildFileEntries(orig) + 2
        /\ FileRefAnchor(orig) => FileRefEntries(file) = FileRefEntries(orig) + 2
        /\ GroupRecords(file) = GroupRecords(orig) + (IF GroupAnchor(orig) THEN 1 ELSE 0)
        /\ ListingOf(file, OtherHdr, ChildrenOpen) = ListingOf(orig, OtherHdr, ChildrenOpen)

\* C6: for a manifest in which no anchor matches, the content written back
\* equals the content read.
NoAnchorsIdentity ==
    (pc = "done" /\ NoAnchors(orig)) => file = orig

NoAnchorsRunDone ==
    pc = "done" /\ NoAnchors(orig) /\ Generated /\ opens = 1 /\ Len(orig) > 8

Added(present, n) == IF present THEN n ELSE 0

\* C7: for every subset of the anchors the run ends with the file written
\* once; a step whose anchor is absent adds nothing and a step whose anchor is
\* present takes effect whichever other anchors are absent.
StepsIndependent ==
    pc = "done" =>
        /\ opens = 1
        /\ file = content
        /\ BuildFileEntries(file) = BuildFileEntries(orig) + Added(BuildFileAnchor(orig), 2)
        /\ FileRefEntries(file) = FileRefEntries(orig) + Added(FileRefAnchor(orig), 2)
        /\ GroupRecords(file) = GroupRecords(orig) + Added(GroupAnchor(orig), 1)
        /\ FeaturesAnchor(orig)
              <=> <<uuids.group_uuid, GroupMember>>
                     \in MemberSet(ListingOf(file, FeaturesHdr, ChildrenOpen))
        /\ ~FeaturesAnchor(orig) => Count(file, {GroupMember}) = 0
        /\ SourcesAnchor(orig)
              <=> {<<uuids.view_build_file_uuid, ViewSourcesMember>>,
                   <<uuids.viewmodel_build_file_uuid, ViewModelSourcesMember>>}
                     \subseteq MemberSet(ListingOf(file, SourcesHdr, FilesOpen))
        /\ ~SourcesAnchor(orig) => Count(file, {ViewSourcesMember, ViewModelSourcesMember}) = 0

\* compiled but not grouped: a partial patch
PartialPatchDone ==
    /\ pc = "done"
    /\ BuildFileAnchor(orig) /\ SourcesAnchor(orig)
    /\ ~FeaturesAnchor(orig) /\ ~GroupAnchor(orig) /\ ~FileRefAnchor(orig)
    /\ BuildFileEntries(file) = 2 /\ GroupRecords(file) = 0

\* C8: the patch preserves parenthesis and brace balance: a balanced manifest
\* is written back balanced, wherever the anchors match.
BalancePreserved ==
    (pc = "done" /\ Balanced(orig)) => Balanced(file)

\* a balanced manifest whose blank listing text was replaced at several places
BalancedAfterWideReplace ==
    /\ pc = "done"
    /\ Balanced(orig)
    /\ AllAnchors(orig)
    /\ Count(file, {GroupMember}) > 1
    /\ Balanced(file)

\* C9: the file is opened for writing once, after the last step; a run that
\* ends with an error before that leaves the file with its original content.
WrittenOnlyAtTheEnd ==
    /\ pc \in {"read", "generate", "build_file", "file_ref", "features", "group",
               "sources", "open_w"} => (file = orig /\ opens = 0)
    /\ (pc = "failed" /\ failedAt # "write") => (file = orig /\ opens = 0)
    /\ pc \in {"write", "done"} => opens = 1
    /\ pc = "done" => file = content

FailedBeforeWrite ==
    /\ pc = "failed"
    /\ failedAt = "open_w"
    /\ content # orig
    /\ file = orig

\* d is c with nothing changed outside the listing matched in c
OnlyListingChanged(c, d, hdr, opener) ==
    LET m == SearchListing(c, AllIds, hdr, opener)
    IN  IF m.found
        THEN /\ Len(d) >= Len(c)
             /\ SubSeq(d, 1, m.first - 1) = SubSeq(c, 1, m.first - 1)
             /\ SubSeq(d, Len(d) - (Len(c) - m.last) + 1, Len(d)) = SubSeq(c, m.last + 1, Len(c))
        ELSE d = c

\* C10: each list-append step changes only the listing it matched: all text
\* before and after that listing is as it was.
ListStepsLocal ==
    [][/\ pc = "features" => OnlyListingChanged(content, content', FeaturesHdr, ChildrenOpen)
       /\ pc = "sources" => OnlyListingChanged(content, content', SourcesHdr, FilesOpen)]_vars

====
